---- MODULE Spec2Model ----
(***************************************************************************)
(* Model of the review dashboard backend:                                  *)
(*   backend/app.py             load_data, analyze_sentiment_vader and the *)
(*                              Flask handlers health, reload_data,        *)
(*                              analyze, get_reviews, get_statistics       *)
(*   backend/semantic_search.py SemanticSearch                             *)
(*                                                                         *)
(* Numbers: VADER's compound score has four decimals and is kept in        *)
(* ten-thousandths; every value the code rounds to three decimals is kept  *)
(* in thousandths.  Index labels and positions are 0-based as in pandas.   *)
(***************************************************************************)
EXTENDS Integers, Sequences, FiniteSets, TLC

\* ------------------------------------------------------------------ bounds
\* longest reviews.csv considered
MaxSourceLen == 3
\* rows read by the load at import time (app.py line 378 reads 3000)
StartupRows == 2
\* largest sample_size a reload request carries
MaxSample == 3
\* largest batch_size a reload request carries
MaxBatch == 2
\* largest page and per_page of a get_reviews request; pages go below 1 too
MaxPage == 3
MaxNegPage == 2
MaxPerPage == 3

\* ------------------------------------------------------------- small helpers
Min(a, b) == IF a <= b THEN a ELSE b
Max(a, b) == IF a >= b THEN a ELSE b

RECURSIVE SumSeq(_)
SumSeq(s) == IF s = <<>> THEN 0 ELSE Head(s) + SumSeq(Tail(s))

\* the subsequence of s at the positions (1-based, ascending) in keep
RECURSIVE SelectIdx(_, _, _)
SelectIdx(s, keep, i) ==
    IF i > Len(s) THEN <<>>
    ELSE (IF i \in keep THEN <<s[i]>> ELSE <<>>) \o SelectIdx(s, keep, i + 1)

\* Python's None
None == [kind |-> "None"]

\* ------------------------------------------------------ the raw review source
\* pandas reads an empty comments field as NaN
NaN == "NaN"
Texts == {"great", "Great", "bad", NaN}
\* a date field as read from the csv is text
GoodDate == [text |-> "2019-01-05"]
BadDate == [text |-> "not a date"]
Dates == {GoodDate, BadDate}

\* the characters of a comment, for str.contains
TextChars(text) ==
    CASE text = "great" -> <<"g", "r", "e", "a", "t">>
      [] text = "Great" -> <<"G", "r", "e", "a", "t">>
      [] text = "bad" -> <<"b", "a", "d">>
      [] OTHER -> <<>>

LowerChar(c) == IF c = "G" THEN "g" ELSE c
Lower(cs) == [i \in 1..Len(cs) |-> LowerChar(cs[i])]

\* a csv row; ids are distinct, the row at file position i has id 100 + i
RowAt(i, text, date) == [id |-> 100 + i, comments |-> text, date |-> date]

RowKinds == Texts \X Dates

\* every file of 1..MaxSourceLen rows whose first StartupRows rows have
\* parseable dates (the import-time load of line 378 succeeded)
SourcesOfLen(n) ==
    { [i \in 1..n |-> RowAt(i, f[i][1], f[i][2])] :
        f \in { g \in [1..n -> RowKinds] :
                  \A i \in 1..Min(n, StartupRows) : g[i][2] = GoodDate } }
Sources == UNION { SourcesOfLen(n) : n \in 1..MaxSourceLen }

\* ------------------------------------------------------------ the VADER scorer
\* vader_analyzer.polarity_scores: neg, neu, pos in thousandths, compound in
\* ten-thousandths.  "great" has valence 3.1, "bad" has valence -2.5; the
\* lexicon lookup lower-cases the word.
Scores(neg, neu, pos, compound) ==
    [neg |-> neg, neu |-> neu, pos |-> pos, compound |-> compound]
PolarityScores(text) ==
    CASE text \in {"great", "Great"} -> Scores(0, 0, 1000, 6249)
      [] text = "bad" -> Scores(1000, 0, 0, -5423)
      [] OTHER -> Scores(0, 1000, 0, 0)

\* round(x, 3) of a four-decimal x, in thousandths.  Python rounds the binary
\* double correctly: a value ending in 5 goes to whichever side its double
\* lies on.  HalfUp holds the |x| in 0.0480 .. 0.0520 ending in 5 whose double
\* rounds away from zero (0.0485, 0.0495, 0.0505; 0.0515 rounds to 0.051).
HalfUp == {485, 495, 505}
Abs(x) == IF x < 0 THEN 0 - x ELSE x
Sign(x) == IF x < 0 THEN 0 - 1 ELSE 1
Round3(x) ==
    LET a == Abs(x)
        q == a \div 10
        r == a % 10
    IN  Sign(x) * (IF r > 5 \/ (r = 5 /\ a \in HalfUp) THEN q + 1 ELSE q)

NeutralDefault ==
    [polarity |-> 0, subjectivity |-> 500, sentiment |-> "neutral",
     compound |-> 0, positive |-> 0, negative |-> 0, neutral_score |-> 1000]

\* lines 75-107: the scores returned for a scorer result
FromScores(scores) ==
    LET compound == scores.compound
        sentiment == IF compound >= 500 THEN "positive"
                     ELSE IF compound <= 0 - 500 THEN "negative"
                     ELSE "neutral"
        polarity == compound
        subjectivity == 1000 - scores.neu
    IN  [polarity |-> Round3(polarity), subjectivity |-> subjectivity,
         sentiment |-> sentiment, compound |-> Round3(compound),
         positive |-> scores.pos, negative |-> scores.neg,
         neutral_score |-> scores.neu]

\* analyze_sentiment_vader given what the scorer does on the text: a scores
\* record, or "raise"
AnalyzeWith(text, outcome) ==
    IF text = NaN \/ text = "" THEN NeutralDefault
    ELSE IF outcome = [raise |-> TRUE] THEN NeutralDefault
    ELSE FromScores(outcome)

analyze_sentiment_vader(text) == AnalyzeWith(text, PolarityScores(text))

\* --------------------------------------------------------------- DataFrames
\* A frame: its index labels, its csv rows, and the sentiment columns assigned
\* so far (has), each a list of values aligned with the rows.
SentCols == <<"polarity", "subjectivity", "sentiment", "compound",
              "positive", "negative", "neutral_score">>
SentColSet == { SentCols[i] : i \in 1..Len(SentCols) }

Frame(index, rows) ==
    [kind |-> "DataFrame", index |-> index, rows |-> rows, has |-> {},
     cols |-> [c \in SentColSet |-> <<>>]]

FrameLen(f) == Len(f.rows)

\* pd.read_csv(DATA_PATH, nrows=n): the first n rows, labelled 0..
read_csv(src, n) ==
    LET k == Min(n, Len(src))
    IN  Frame([i \in 1..k |-> i - 1], SubSeq(src, 1, k))

\* pd.to_datetime on one value: a Timestamp, or a failure; a Timestamp stays
Timestamp(y, m, d) == [year |-> y, month |-> m, day |-> d]
IsTimestamp(d) == "year" \in DOMAIN d
ParseError == [parse_error |-> TRUE]
ParseDate(d) ==
    IF IsTimestamp(d) THEN d
    ELSE IF d.text = "2019-01-05" THEN Timestamp(2019, 1, 5)
    ELSE ParseError
\* Timestamp.strftime('%Y-%m-%d')
Strftime(d) ==
    IF d = Timestamp(2019, 1, 5) THEN "2019-01-05" ELSE "?"
\* df['date'] = pd.to_datetime(df['date']); raises when a value does not parse
CanParseDates(f) == \A i \in 1..Len(f.rows) : ParseDate(f.rows[i].date) # ParseError
to_datetime(f) ==
    [f EXCEPT !.rows = [i \in 1..Len(f.rows) |->
                          [f.rows[i] EXCEPT !.date = ParseDate(f.rows[i].date)]]]

\* df.drop_duplicates(subset=['comments'], keep='first'): one pass over the rows
\* that keeps a row when its comments were not seen before (NaN equals NaN);
\* the labels of the kept rows are not renumbered
RECURSIVE KeepPositions(_, _, _)
KeepPositions(rows, i, seen) ==
    IF i > Len(rows) THEN {}
    ELSE IF rows[i].comments \in seen THEN KeepPositions(rows, i + 1, seen)
    ELSE {i} \cup KeepPositions(rows, i + 1, seen \cup {rows[i].comments})
drop_duplicates_KeepLast(f) ==
    LET keep == { i \in 1..Len(f.rows) :
                    \A j \in (i + 1)..Len(f.rows) : f.rows[j].comments # f.rows[i].comments }
    IN  [f EXCEPT !.index = SelectIdx(f.index, keep, 1),
                  !.rows = SelectIdx(f.rows, keep, 1)]
drop_duplicates(f) ==
    LET keep == KeepPositions(f.rows, 1, {})
    IN  [f EXCEPT !.index = SelectIdx(f.index, keep, 1),
                  !.rows = SelectIdx(f.rows, keep, 1)]

\* lines 43-46: one score per row of the frame, in row order
ScoreRows(f) == [i \in 1..Len(f.rows) |-> analyze_sentiment_vader(f.rows[i].comments)]

\* df_with_sentiment[col] = [s[col] for s in sentiments]; pandas raises
\* ValueError when the list is not as long as the index
CanSetColumn(f, sentiments) == Len(sentiments) = FrameLen(f)
SetColumn(f, col, sentiments) ==
    [f EXCEPT !.has = @ \cup {col},
              !.cols[col] = [i \in 1..Len(sentiments) |-> sentiments[i][col]]]

\* -------------------------------------------------------------------- state
Threads == {"t1", "t2"}

VARIABLES
    source,             \* the rows of the csv file at DATA_PATH
    df,                 \* global df
    df_with_sentiment,  \* global df_with_sentiment
    pc,                 \* per request thread: the line it is at, "ret" or "idle"
    loc,                \* per request thread: the handler's local variables
    before,             \* history: what the reads returned when the request in progress began;
                        \* in SpecInc the repeating client's request and the rows last read
    ss                  \* the semantic search process and its cache file

vars == <<source, df, df_with_sentiment, pc, loc, before, ss>>

IdleLoc == [handler |-> "none"]
NoView == [view |-> "none"]

\* what health (line 125) and the corpus readers are served right now
HealthCount == IF df # None THEN FrameLen(df) ELSE 0
View == [reviews_loaded |-> HealthCount, corpus |-> df_with_sentiment]

Goto(t, line) == pc' = [pc EXCEPT ![t] = line]

\* the handler's return statement: the response is in hand (pc = "ret")
Return(t, response) ==
    /\ Goto(t, "ret")
    /\ loc' = [loc EXCEPT ![t] = [loc[t] EXCEPT !.resp = response]]

\* a handler that reads the shared state in one statement
Answer(t, locals, response) ==
    /\ pc[t] = "idle"
    /\ Goto(t, "ret")
    /\ loc' = [loc EXCEPT ![t] = [locals EXCEPT !.resp = response]]
    /\ UNCHANGED <<source, df, df_with_sentiment, ss>>

\* the response is sent and the thread takes the next request
SendResponse(t) ==
    /\ pc[t] = "ret"
    /\ Goto(t, "idle")
    /\ loc' = [loc EXCEPT ![t] = IdleLoc]
    /\ UNCHANGED <<source, df, df_with_sentiment, ss>>

\* an exception that leaves reload_data through its except clause (line 173),
\* or any other handler through Flask's error handler: a 500 response
Error(exc) == [status |-> 500, error |-> exc]
NoResp == [status |-> 0]

\* -------------------------------------------------- reload_data and load_data
\* lines 159-166: the sample_size handed to load_data; batch_size 0 stands for
\* an absent (None) or zero batch_size, both falsy
NewSize_NoCap(current_size, batch_size, sample_size) ==
    IF batch_size # 0 THEN current_size + batch_size ELSE sample_size
NewSize(current_size, batch_size, sample_size) ==
    IF batch_size # 0 THEN Min(current_size + batch_size, sample_size)
    ELSE sample_size

\* lines 154-163 up to the call of load_data
ReloadBegin(t, sample_sizes, batch_sizes) ==
    /\ pc[t] = "idle"
    /\ \E sample_size \in sample_sizes, batch_size \in batch_sizes :
         LET current_size == IF df_with_sentiment # None
                             THEN FrameLen(df_with_sentiment) ELSE 0
         IN  loc' = [loc EXCEPT ![t] =
                 [handler |-> "reload_data", sample_size |-> sample_size,
                  batch_size |-> batch_size, current_size |-> current_size,
                  new_size |-> NewSize(current_size, batch_size, sample_size),
                  initial_count |-> 0, duplicates_removed |-> 0,
                  sentiments |-> <<>>, col |-> 1, resp |-> NoResp]]
    /\ Goto(t, "l28")
    /\ UNCHANGED <<source, df, df_with_sentiment, ss>>

\* line 28
Load28(t) ==
    /\ pc[t] = "l28"
    /\ df' = read_csv(source, loc[t].new_size)
    /\ Goto(t, "l29")
    /\ UNCHANGED <<source, df_with_sentiment, loc, ss>>

\* line 29, on whatever frame the global df names now
Load29(t) ==
    /\ pc[t] = "l29"
    /\ IF CanParseDates(df)
       THEN /\ df' = to_datetime(df)
            /\ Goto(t, "l32")
            /\ UNCHANGED loc
       ELSE /\ Return(t, Error("DateParseError"))
            /\ UNCHANGED df
    /\ UNCHANGED <<source, df_with_sentiment, ss>>

\* line 32
Load32(t) ==
    /\ pc[t] = "l32"
    /\ loc' = [loc EXCEPT ![t].initial_count = FrameLen(df)]
    /\ Goto(t, "l33")
    /\ UNCHANGED <<source, df, df_with_sentiment, ss>>

\* line 33
Load33(t) ==
    /\ pc[t] = "l33"
    /\ df' = drop_duplicates(df)
    /\ Goto(t, "l34")
    /\ UNCHANGED <<source, df_with_sentiment, loc, ss>>

\* lines 34-39
Load34(t) ==
    /\ pc[t] = "l34"
    /\ loc' = [loc EXCEPT ![t].duplicates_removed = loc[t].initial_count - FrameLen(df)]
    /\ Goto(t, "l44")
    /\ UNCHANGED <<source, df, df_with_sentiment, ss>>

\* lines 43-48: the loop iterates the frame df names when it starts and
\* touches nothing shared
Load44(t) ==
    /\ pc[t] = "l44"
    /\ loc' = [loc EXCEPT ![t].sentiments = ScoreRows(df)]
    /\ Goto(t, "l50")
    /\ UNCHANGED <<source, df, df_with_sentiment, ss>>

\* line 50: the copy is published before it has any sentiment column
Load50(t) ==
    /\ pc[t] = "l50"
    /\ df_with_sentiment' = df
    /\ Goto(t, "l51")
    /\ UNCHANGED <<source, df, loc, ss>>

\* lines 51-57, one column assignment each, on the published frame
Load51(t) ==
    /\ pc[t] = "l51"
    /\ IF CanSetColumn(df_with_sentiment, loc[t].sentiments)
       THEN /\ df_with_sentiment' =
                  SetColumn(df_with_sentiment, SentCols[loc[t].col], loc[t].sentiments)
            /\ loc' = [loc EXCEPT ![t].col = @ + 1]
            /\ Goto(t, IF loc[t].col = Len(SentCols) THEN "l168" ELSE "l51")
       ELSE /\ Return(t, Error("ValueError"))
            /\ UNCHANGED df_with_sentiment
    /\ UNCHANGED <<source, df, ss>>

\* lines 168-172
Reload168(t) ==
    /\ pc[t] = "l168"
    /\ Return(t, [status |-> 200, success |-> TRUE,
                  loaded |-> FrameLen(df_with_sentiment)])
    /\ UNCHANGED <<source, df, df_with_sentiment, ss>>

\* load_data run alone, start to end: the frames it leaves in df and
\* df_with_sentiment (the import-time call of line 378)
RECURSIVE SetColumnsFrom(_, _, _)
SetColumnsFrom(f, sentiments, k) ==
    IF k > Len(SentCols) THEN f
    ELSE SetColumnsFrom(SetColumn(f, SentCols[k], sentiments), sentiments, k + 1)
load_data(src, sample_size) ==
    LET d == drop_duplicates(to_datetime(read_csv(src, sample_size)))
    IN  [df |-> d, df_with_sentiment |-> SetColumnsFrom(d, ScoreRows(d), 1)]

\* ------------------------------------------------------------------- health
\* lines 120-127
health(t) ==
    Answer(t, [handler |-> "health", resp |-> NoResp],
           [status |-> 200, reviews_loaded |-> HealthCount])

\* ------------------------------------------------------------------ analyze
\* what the scorer may return for a text: it raises, or gives scores whose
\* compound lies within Band ten-thousandths of a threshold or is one of a few
\* values away from them
Band == 20
CompoundGrid ==
    { c \in (0 - 500 - Band)..(500 + Band) : Abs(c) >= 500 - Band }
        \cup {0 - 10000, 0 - 5423, 0, 6249, 10000}
NeuGrid == {0, 400, 1000}
ScorerOutcomes ==
    { Scores(IF c < 0 THEN 1000 - neu ELSE 0, neu, IF c < 0 THEN 0 ELSE 1000 - neu, c) :
        c \in CompoundGrid, neu \in NeuGrid }
        \cup {[raise |-> TRUE]}

\* lines 191-201
analyze(t) ==
    \E text \in {"", "some text"}, outcome \in ScorerOutcomes :
        Answer(t, [handler |-> "analyze", text |-> text, resp |-> NoResp],
               IF text = ""
               THEN [status |-> 400, error |-> "No text provided"]
               ELSE [status |-> 200, scores |-> AnalyzeWith(text, outcome)])

\* -------------------------------------------------------------- get_reviews
\* Series.str.contains(query, case=False, na=False) on one comment
Contains(text, query) ==
    LET cs == Lower(TextChars(text))
        q == Lower(query)
    IN  /\ text # NaN
        /\ \E i \in 1..(Len(cs) - Len(q) + 1) : SubSeq(cs, i, i + Len(q) - 1) = q

\* Python's slice [start:stop] of a sequence of length n: a negative bound
\* counts from the end, every bound is clipped to 0..n
SliceBound(n, x) == IF x < 0 THEN Max(n + x, 0) ELSE Min(x, n)
iloc_slice(ps, start, stop) ==
    LET lo == SliceBound(Len(ps), start)
        hi == SliceBound(Len(ps), stop)
    IN  IF lo < hi THEN SubSeq(ps, lo + 1, hi) ELSE <<>>

\* line 255
TotalPages_Floor(total, per_page) == total \div per_page
TotalPages(total, per_page) == (total + per_page - 1) \div per_page

SentimentNames == {"positive", "negative", "neutral"}

\* lines 235-248 for the row at position p of frame f
ReviewItem(f, p) ==
    [id |-> f.rows[p].id, date |-> Strftime(f.rows[p].date),
     comments |-> f.rows[p].comments,
     polarity |-> f.cols["polarity"][p], subjectivity |-> f.cols["subjectivity"][p],
     sentiment |-> f.cols["sentiment"][p], compound |-> f.cols["compound"][p],
     positive |-> f.cols["positive"][p], negative |-> f.cols["negative"][p],
     neutral_score |-> f.cols["neutral_score"][p]]

\* lines 206-256 on the frame f that df_with_sentiment names at line 216
ReviewsResponse(f, page, per_page, sentiment_filter, search_query) ==
    LET all == [i \in 1..FrameLen(f) |-> i]
        Matches(p) == Contains(f.rows[p].comments, search_query)
        searched == IF search_query # <<>> THEN SelectSeq(all, Matches) ELSE all
        filtering == sentiment_filter # "" /\ sentiment_filter \in SentimentNames
        HasLabel(p) == f.cols["sentiment"][p] = sentiment_filter
        filtered == IF filtering THEN SelectSeq(searched, HasLabel) ELSE searched
        total == Len(filtered)
        start_idx == (page - 1) * per_page
        end_idx == start_idx + per_page
        paginated == iloc_slice(filtered, start_idx, end_idx)
    IN  IF f = None THEN Error("Data not loaded")
        ELSE IF filtering /\ "sentiment" \notin f.has THEN Error("KeyError")
        ELSE IF paginated # <<>> /\ ~IsTimestamp(f.rows[paginated[1]].date)
             THEN Error("AttributeError")
        ELSE IF paginated # <<>> /\ f.has # SentColSet THEN Error("KeyError")
        ELSE IF per_page = 0 THEN Error("ZeroDivisionError")
        ELSE [status |-> 200,
              reviews |-> [i \in 1..Len(paginated) |-> ReviewItem(f, paginated[i])],
              total |-> total, page |-> page, per_page |-> per_page,
              total_pages |-> TotalPages(total, per_page)]

Pages == (0 - MaxNegPage)..MaxPage
PerPages == 0..MaxPerPage
SentimentFilters == {"", "positive", "other"}
SearchQueries == {<<>>, <<"G", "R">>}

get_reviews(t, pages, per_pages, sentiment_filters, search_queries) ==
    \E page \in pages, per_page \in per_pages,
       sentiment_filter \in sentiment_filters, search_query \in search_queries :
        Answer(t, [handler |-> "get_reviews", page |-> page, per_page |-> per_page,
                   sentiment |-> sentiment_filter, search |-> search_query,
                   corpus |-> df_with_sentiment, resp |-> NoResp],
               ReviewsResponse(df_with_sentiment, page, per_page,
                               sentiment_filter, search_query))

\* ----------------------------------------------------------- get_statistics
\* Series.idxmax / idxmin: the index LABEL of the first occurrence of the
\* extreme value; a scan that moves on only to a strictly better value
RECURSIVE ArgBest(_, _, _, _)
ArgBest(vals, sign, i, best) ==
    IF i > Len(vals) THEN best
    ELSE ArgBest(vals, sign, i + 1,
                 IF sign * vals[i] > sign * vals[best] THEN i ELSE best)
idxmax(f, col) == f.index[ArgBest(f.cols[col], 1, 2, 1)]
idxmin(f, col) == f.index[ArgBest(f.cols[col], 0 - 1, 2, 1)]

\* Series.mean as the fraction sum / count
Mean(vals) == [sum |-> SumSeq(vals), count |-> Len(vals)]
CountOf(vals, v) == Cardinality({ i \in 1..Len(vals) : vals[i] = v })

\* lines 265-282
StatsDict(f) ==
    [total_reviews |-> FrameLen(f),
     sentiment_distribution |->
        [positive |-> CountOf(f.cols["sentiment"], "positive"),
         negative |-> CountOf(f.cols["sentiment"], "negative"),
         neutral |-> CountOf(f.cols["sentiment"], "neutral")],
     average_polarity |-> Mean(f.cols["polarity"]),
     average_subjectivity |-> Mean(f.cols["subjectivity"]),
     average_compound |-> Mean(f.cols["compound"]),
     most_positive_review |-> None,
     most_negative_review |-> None]

\* df_with_sentiment.iloc[i] takes i as a 0-based POSITION
ilocInRange(f, i) == i >= 0 - FrameLen(f) /\ i < FrameLen(f)
ilocPos(f, i) == IF i < 0 THEN FrameLen(f) + i + 1 ELSE i + 1

\* lines 289-294 / 297-302 for the value i of max_polarity_idx / min_polarity_idx
ExtremeReview(f, i) ==
    LET p == ilocPos(f, i)
    IN  [comments |-> [head |-> f.rows[p].comments, tail |-> "..."],
         polarity |-> f.cols["polarity"][p],
         compound |-> f.cols["compound"][p],
         id |-> f.rows[p].id]
\* what those lines raise, "" when nothing
ExtremeRaises(f, i) ==
    IF ~ilocInRange(f, i) THEN "IndexError"
    ELSE IF f.rows[ilocPos(f, i)].comments = NaN THEN "TypeError"
    ELSE IF {"polarity", "compound"} \ f.has # {} THEN "KeyError"
    ELSE ""

\* lines 261-282
Stats261(t) ==
    /\ pc[t] = "idle"
    /\ IF df_with_sentiment = None \/ df_with_sentiment.has # SentColSet
       THEN /\ Goto(t, "ret")
            /\ loc' = [loc EXCEPT ![t] =
                        [handler |-> "get_statistics",
                         resp |-> Error(IF df_with_sentiment = None
                                        THEN "Data not loaded" ELSE "KeyError")]]
       ELSE /\ loc' = [loc EXCEPT ![t] =
                        [handler |-> "get_statistics",
                         stats |-> StatsDict(df_with_sentiment),
                         max_polarity_idx |-> 0, min_polarity_idx |-> 0,
                         resp |-> NoResp]]
            /\ Goto(t, "s285")
    /\ UNCHANGED <<source, df, df_with_sentiment, ss>>

\* line 285
Stats285(t) ==
    /\ pc[t] = "s285"
    /\ IF "polarity" \notin df_with_sentiment.has
       THEN Return(t, Error("KeyError"))
       ELSE IF FrameLen(df_with_sentiment) = 0
       THEN Return(t, Error("ValueError"))
       ELSE /\ loc' = [loc EXCEPT ![t].max_polarity_idx = idxmax(df_with_sentiment, "polarity")]
            /\ Goto(t, "s286")
    /\ UNCHANGED <<source, df, df_with_sentiment, ss>>

\* line 286
Stats286(t) ==
    /\ pc[t] = "s286"
    /\ IF "polarity" \notin df_with_sentiment.has
       THEN Return(t, Error("KeyError"))
       ELSE IF FrameLen(df_with_sentiment) = 0
       THEN Return(t, Error("ValueError"))
       ELSE /\ loc' = [loc EXCEPT ![t].min_polarity_idx = idxmin(df_with_sentiment, "polarity")]
            /\ Goto(t, "s288")
    /\ UNCHANGED <<source, df, df_with_sentiment, ss>>

\* lines 288-294
Stats288(t) ==
    /\ pc[t] = "s288"
    /\ LET i == loc[t].max_polarity_idx
           raises == ExtremeRaises(df_with_sentiment, i)
       IN  IF raises # ""
           THEN Return(t, Error(raises))
           ELSE /\ loc' = [loc EXCEPT ![t].stats.most_positive_review =
                                  ExtremeReview(df_with_sentiment, i)]
                /\ Goto(t, "s296")
    /\ UNCHANGED <<source, df, df_with_sentiment, ss>>

\* lines 296-304
Stats296(t) ==
    /\ pc[t] = "s296"
    /\ LET i == loc[t].min_polarity_idx
           raises == ExtremeRaises(df_with_sentiment, i)
       IN  IF raises # ""
           THEN Return(t, Error(raises))
           ELSE Return(t, [status |-> 200,
                           stats |-> [loc[t].stats EXCEPT !.most_negative_review =
                                         ExtremeReview(df_with_sentiment, i)]])
    /\ UNCHANGED <<source, df, df_with_sentiment, ss>>

\* --------------------------------------------------------- the specifications
\* ---------------------------------------------------------- semantic search
MaxTopK == 3

\* str(value) as the build applies it to a comments cell
Str(text) == IF text = NaN THEN "nan" ELSE text

\* the vectors the embedding service gives for the texts used here
Embed(text) ==
    CASE text = "great" -> <<3, 4>>
      [] text = "Great" -> <<4, 3>>
      [] text = "bad"   -> <<0 - 3, 4>>
      [] OTHER          -> <<0, 5>>

\* generate_embedding, lines 26-36: the service's vector, or None when the call
\* raises
generate_embedding(text, ok) ==
    IF ok THEN [kind |-> "list", v |-> Embed(text)] ELSE [kind |-> "None", v |-> <<>>]

Dot(a, b) == SumSeq([i \in 1..Len(a) |-> a[i] * b[i]])
Norm(v) ==
    LET d == Dot(v, v)
    IN  CHOOSE n \in 0..d : n * n <= d /\ (n + 1) * (n + 1) > d
\* sklearn's cosine_similarity of one query row against every cached row, in
\* thousandths; a zero norm is replaced by 1
cosine_similarity(q, rows) ==
    LET nz(v) == IF Norm(v) = 0 THEN 1 ELSE Norm(v)
    IN  [i \in 1..Len(rows) |-> (Dot(q, rows[i]) * 1000) \div (nz(q) * nz(rows[i]))]

\* np.argsort with the default kind: some permutation that puts the values in
\* ascending order; the order of equal values is not determined
argsort(a) ==
    { p \in [1..Len(a) -> 1..Len(a)] :
        /\ \A i, j \in 1..Len(a) : i # j => p[i] # p[j]
        /\ \A i, j \in 1..Len(a) : i < j => a[p[i]] <= a[p[j]] }
Reversed(s) == [i \in 1..Len(s) |-> s[Len(s) + 1 - i]]
Head_k(s, k) == SubSeq(s, 1, Min(k, Len(s)))

NoneValue == [kind |-> "None", v |-> <<>>]
ndarray(rows) == [kind |-> "ndarray", v |-> rows]
list(items) == [kind |-> "list", v |-> items]
NoFile == [kind |-> "absent", bytes |-> <<>>]
NoLocals == [call |-> "none"]

\* pickle.dump: the byte stream of {'embeddings': ..., 'reviews_data': ...},
\* in the chunks in which it reaches the file
Pickle(embeddings, reviews_data) ==
    <<[op |-> "PROTO", v |-> <<>>]>>
        \o [i \in 1..Len(embeddings) |-> [op |-> "vec", v |-> <<embeddings[i]>>]]
        \o <<[op |-> "MARK", v |-> <<>>]>>
        \o [i \in 1..Len(reviews_data) |-> [op |-> "dict", v |-> <<reviews_data[i]>>]]
        \o <<[op |-> "STOP", v |-> <<>>]>>
Complete(bytes) == Len(bytes) > 0 /\ bytes[Len(bytes)].op = "STOP"
OpsOf(bytes, op) ==
    LET sel == SelectSeq(bytes, LAMBDA c : c.op = op)
    IN  [i \in 1..Len(sel) |-> sel[i].v[1]]
\* pickle.load: raises on a stream that stops before STOP
Unpickle(bytes) ==
    IF Complete(bytes)
    THEN [raise |-> "", embeddings |-> OpsOf(bytes, "vec"), reviews_data |-> OpsOf(bytes, "dict")]
    ELSE [raise |-> "EOFError", embeddings |-> <<>>, reviews_data |-> <<>>]

\* lines 20-23, and the cache file the new process finds
SemanticSearch(file) ==
    [pc |-> "idle", embeddings |-> NoneValue, reviews_data |-> NoneValue,
     file |-> file, l |-> NoLocals, resp |-> NoResp]

\* lines 65-71
Snapshot(row) == [id |-> row.id, date |-> row.date, comments |-> Str(row.comments)]

\* lines 42-55: load the cache when the file exists, else start the build
Create42 ==
    /\ ss.pc = "idle"
    /\ IF ss.file.kind = "file"
       THEN LET cache_data == Unpickle(ss.file.bytes)
            IN  IF cache_data.raise # ""
                THEN ss' = [ss EXCEPT !.pc = "ret", !.l = [call |-> "create_embeddings"],
                                      !.resp = [raise |-> cache_data.raise]]
                ELSE ss' = [ss EXCEPT !.pc = "ret", !.l = [call |-> "create_embeddings"],
                                      !.embeddings = ndarray(cache_data.embeddings),
                                      !.reviews_data = list(cache_data.reviews_data),
                                      !.resp = [raise |-> ""]]
       ELSE ss' = [ss EXCEPT !.pc = "c57",
                             !.l = [call |-> "create_embeddings", embeddings |-> <<>>,
                                    reviews_data |-> <<>>, i |-> 1, calls |-> <<>>]]
    /\ UNCHANGED <<source, df, df_with_sentiment, pc, loc>>

\* lines 57-72 with the record appended outside the test of the embedding
Create57_AppendAlways ==
    /\ ss.pc = "c57"
    /\ ss.l.i <= Len(df.rows)
    /\ \E ok \in BOOLEAN :
         LET row == df.rows[ss.l.i]
             text == Str(row.comments)
             embedding == generate_embedding(text, ok)
         IN  ss' = IF embedding.kind # "None"
                   THEN [ss EXCEPT !.l.embeddings = Append(@, embedding.v),
                                   !.l.reviews_data = Append(@, Snapshot(row)),
                                   !.l.calls = Append(@, [text |-> text, ok |-> ok]),
                                   !.l.i = @ + 1]
                   ELSE [ss EXCEPT !.l.reviews_data = Append(@, Snapshot(row)),
                                   !.l.calls = Append(@, [text |-> text, ok |-> ok]),
                                   !.l.i = @ + 1]
    /\ UNCHANGED <<source, df, df_with_sentiment, pc, loc>>

\* lines 57-72: one iteration of the loop over the rows of df; calls is the
\* log of the generate_embedding calls the build has made
Create57 ==
    /\ ss.pc = "c57"
    /\ ss.l.i <= Len(df.rows)
    /\ \E ok \in BOOLEAN :
         LET row == df.rows[ss.l.i]
             text == Str(row.comments)
             embedding == generate_embedding(text, ok)
         IN  ss' = IF embedding.kind # "None"
                   THEN [ss EXCEPT !.l.embeddings = Append(@, embedding.v),
                                   !.l.reviews_data = Append(@, Snapshot(row)),
                                   !.l.calls = Append(@, [text |-> text, ok |-> ok]),
                                   !.l.i = @ + 1]
                   ELSE [ss EXCEPT !.l.calls = Append(@, [text |-> text, ok |-> ok]),
                                   !.l.i = @ + 1]
    /\ UNCHANGED <<source, df, df_with_sentiment, pc, loc>>

\* lines 74-75
Create74 ==
    /\ ss.pc = "c57"
    /\ ss.l.i > Len(df.rows)
    /\ ss' = [ss EXCEPT !.pc = "c79", !.embeddings = ndarray(ss.l.embeddings),
                        !.reviews_data = list(ss.l.reviews_data)]
    /\ UNCHANGED <<source, df, df_with_sentiment, pc, loc>>

\* line 79: open(EMBEDDINGS_CACHE_FILE, 'wb') creates the file empty
Create79 ==
    /\ ss.pc = "c79"
    /\ ss' = [ss EXCEPT !.pc = "c80", !.file = [kind |-> "file", bytes |-> <<>>]]
    /\ UNCHANGED <<source, df, df_with_sentiment, pc, loc>>

\* lines 80-83: the stream reaches the file chunk by chunk
Create80 ==
    /\ ss.pc = "c80"
    /\ LET stream == Pickle(ss.embeddings.v, ss.reviews_data.v)
           k == Len(ss.file.bytes)
       IN  /\ k < Len(stream)
           /\ ss' = [ss EXCEPT !.file.bytes = Append(@, stream[k + 1])]
    /\ UNCHANGED <<source, df, df_with_sentiment, pc, loc>>

\* line 85: the with block has closed the file
Create85 ==
    /\ ss.pc = "c80"
    /\ ss.file.bytes = Pickle(ss.embeddings.v, ss.reviews_data.v)
    /\ ss' = [ss EXCEPT !.pc = "ret", !.resp = [raise |-> ""]]
    /\ UNCHANGED <<source, df, df_with_sentiment, pc, loc>>

create_embeddings == Create42 \/ Create57 \/ Create74 \/ Create79 \/ Create80 \/ Create85

\* lines 87-113
search(queries, top_ks) ==
    /\ ss.pc = "idle"
    /\ \E query \in queries, top_k \in top_ks, ok \in BOOLEAN :
         LET query_embedding == generate_embedding(query, ok)
             call == [call |-> "search", query |-> query, top_k |-> top_k,
                      query_embedding |-> query_embedding]
         IN  IF ss.embeddings.kind = "None" \/ ss.reviews_data.kind = "None"
             THEN ss' = [ss EXCEPT !.pc = "ret", !.l = call,
                                   !.resp = [raise |-> "", results |-> <<>>]]
             ELSE IF query_embedding.kind = "None"
             THEN ss' = [ss EXCEPT !.pc = "ret", !.l = call,
                                   !.resp = [raise |-> "", results |-> <<>>]]
             ELSE IF Len(ss.embeddings.v) = 0
             THEN ss' = [ss EXCEPT !.pc = "ret", !.l = call,
                                   !.resp = [raise |-> "ValueError", results |-> <<>>]]
             ELSE LET similarities == cosine_similarity(query_embedding.v, ss.embeddings.v)
                  IN  \E order \in argsort(similarities) :
                        LET top_indices == Head_k(Reversed(order), top_k)
                            results == [i \in 1..Len(top_indices) |->
                                          [review |-> ss.reviews_data.v[top_indices[i]],
                                           similarity_score |-> similarities[top_indices[i]]]]
                        IN  ss' = [ss EXCEPT !.pc = "ret",
                                             !.l = [call |-> "search", query |-> query,
                                                    top_k |-> top_k,
                                                    query_embedding |-> query_embedding,
                                                    similarities |-> similarities,
                                                    top_indices |-> top_indices],
                                             !.resp = [raise |-> "", results |-> results]]
    /\ UNCHANGED <<source, df, df_with_sentiment, pc, loc>>

\* the caller has the result or the exception
SearchReturn ==
    /\ ss.pc = "ret"
    /\ ss' = [ss EXCEPT !.pc = "idle", !.l = NoLocals, !.resp = NoResp]
    /\ UNCHANGED <<source, df, df_with_sentiment, pc, loc>>

\* the process dies inside create_embeddings and a new one starts (lines 20-23,
\* 116); the file stays as it was
Crash ==
    /\ ss.pc \in {"c57", "c79", "c80"}
    /\ ss' = SemanticSearch(ss.file)
    /\ UNCHANGED <<source, df, df_with_sentiment, pc, loc>>


\* the state once the module is imported: line 378 has loaded StartupRows rows
Init ==
    /\ source \in Sources
    /\ df = load_data(source, StartupRows).df
    /\ df_with_sentiment = load_data(source, StartupRows).df_with_sentiment
    /\ pc = [t \in Threads |-> "idle"]
    /\ loc = [t \in Threads |-> IdleLoc]
    /\ before = NoView
    /\ ss = SemanticSearch(NoFile)

\* reload_data, start to end
Reload(t, sample_sizes, batch_sizes) ==
    \/ ReloadBegin(t, sample_sizes, batch_sizes)
    \/ Load28(t)
    \/ Load29(t)
    \/ Load32(t)
    \/ Load33(t)
    \/ Load34(t)
    \/ Load44(t)
    \/ Load50(t)
    \/ Load51(t)
    \/ Reload168(t)

\* get_statistics, start to end
Statistics(t) ==
    \/ Stats261(t)
    \/ Stats285(t)
    \/ Stats286(t)
    \/ Stats288(t)
    \/ Stats296(t)

\* the history variable: the view when the request in progress began
Hist(t) == before' = IF pc[t] = "idle" THEN View ELSE before

\* One request at a time: reloads, health and statistics on one thread.
NextSeq ==
    \/ Reload("t1", 1..MaxSample, 0..MaxBatch) /\ Hist("t1")
    \/ health("t1") /\ Hist("t1")
    \/ Statistics("t1") /\ Hist("t1")
    \/ SendResponse("t1") /\ Hist("t1")
SpecSeq == Init /\ [][NextSeq]_vars

\* One request at a time: full reloads and get_reviews, on the files whose
\* dates all parse.
PageSources ==
    { src \in Sources : \A i \in 1..Len(src) : src[i].date = GoodDate }
InitPage == Init /\ source \in PageSources
NextPage ==
    \/ Reload("t1", 1..MaxSample, {0}) /\ Hist("t1")
    \/ get_reviews("t1", Pages, PerPages, SentimentFilters, SearchQueries) /\ Hist("t1")
    \/ SendResponse("t1") /\ Hist("t1")
SpecPage == InitPage /\ [][NextPage]_vars

\* One analyze request at a time.
InitScore == Init /\ Len(source) = 1
NextScore ==
    \/ analyze("t1") /\ Hist("t1")
    \/ SendResponse("t1") /\ Hist("t1")
SpecScore == InitScore /\ [][NextScore]_vars

\* The search engine of one process after another, over the startup corpus.
Queries == {"great", "bad", "nan"}
InitSearch == Init /\ source \in PageSources
NextSearch ==
    \/ create_embeddings /\ UNCHANGED before
    \/ search(Queries, 1..MaxTopK) /\ UNCHANGED before
    \/ SearchReturn /\ UNCHANGED before
    \/ Crash /\ UNCHANGED before
SpecSearch == InitSearch /\ [][NextSearch]_vars

\* A client that repeats the same incremental reload request, each to
\* completion, from a corpus loaded with n rows.  before holds the client's
\* fixed batch_size and sample_size and the number of rows the last completed
\* load read.
InitInc ==
    /\ source \in PageSources
    /\ \E T \in 1..Len(source), B \in 1..MaxBatch :
         \E n \in 1..T :
            /\ df = load_data(source, n).df
            /\ df_with_sentiment = load_data(source, n).df_with_sentiment
            /\ before = [view |-> "client", batch_size |-> B, sample_size |-> T, read |-> n]
    /\ pc = [t \in Threads |-> "idle"]
    /\ loc = [t \in Threads |-> IdleLoc]
    /\ ss = SemanticSearch(NoFile)
NextInc ==
    \/ Reload("t1", {before.sample_size}, {before.batch_size}) /\ UNCHANGED before
    \/ /\ SendResponse("t1")
       /\ before' = IF loc["t1"].resp.status = 200
                    THEN [before EXCEPT !.read = loc["t1"].initial_count]
                    ELSE before
SpecInc == InitInc /\ [][NextInc]_vars /\ WF_vars(NextInc)

\* Request threads run concurrently (Flask's threaded server).  Thread t1
\* takes reloads of MaxSample rows, thread t2 reloads of one row fewer, and
\* both take health and first-page get_reviews requests.  The files are those
\* of MaxSourceLen rows with comments "great" or "bad".
ConcSources ==
    { src \in SourcesOfLen(MaxSourceLen) :
        \A i \in 1..Len(src) : src[i].comments \in {"great", "bad"} }
InitConc == Init /\ source \in ConcSources
Next ==
    \/ Reload("t1", {MaxSample}, {0}) /\ UNCHANGED before
    \/ Reload("t2", {MaxSample - 1}, {0}) /\ UNCHANGED before
    \/ \E t \in Threads : health(t) /\ UNCHANGED before
    \/ \E t \in Threads :
         get_reviews(t, {1}, {MaxPerPage}, {""}, {<<>>}) /\ UNCHANGED before
    \/ \E t \in Threads : SendResponse(t) /\ UNCHANGED before
Spec == InitConc /\ [][Next]_vars

\* ---------------------------------------------------------------- properties
Reloading(t) == loc[t].handler = "reload_data"
Returned(t, handler) == pc[t] = "ret" /\ loc[t].handler = handler
ReloadSucceeded(t) == Returned(t, "reload_data") /\ loc[t].resp.status = 200
ReloadFailed(t) == Returned(t, "reload_data") /\ loc[t].resp.status = 500

\* the first n rows of the file, as load_data reads them
RawRows(n) == SubSeq(source, 1, Min(n, Len(source)))
CommentsOf(rows) == { rows[i].comments : i \in 1..Len(rows) }
FirstIdWith(rows, text) ==
    rows[CHOOSE i \in 1..Len(rows) :
            /\ rows[i].comments = text
            /\ \A j \in 1..(i - 1) : rows[j].comments # text].id

\* C1 (original claim): readers only ever see a whole corpus.  Every answer
\* of get_reviews and of health is the answer some complete load generation
\* gives: the reviews come with their sentiment fields, and the count health
\* reports is the record count of a loaded corpus.
Generations == { load_data(source, n) : n \in 1..MaxSample }
C1_ReadersSeeWholeCorpus ==
    \A t \in Threads :
        /\ Returned(t, "get_reviews") =>
             \E g \in Generations :
                loc[t].resp = ReviewsResponse(g.df_with_sentiment, loc[t].page,
                                  loc[t].per_page, loc[t].sentiment, loc[t].search)
        /\ Returned(t, "health") =>
             \E g \in Generations :
                loc[t].resp.reviews_loaded = FrameLen(g.df_with_sentiment)

\* C2 (original claim): when a reload has failed, health and the corpus
\* readers are served exactly what they were served when the reload began.
C2_FailedReloadKeepsCorpus ==
    ReloadFailed("t1") => View = before

\* C3 (original claim): reloads do not interleave.  No reload fails on a
\* length mismatch between records and scores, and whenever no reload is in
\* progress the published corpus is the result of one load run alone, every
\* record carrying the scores of its own comments.
NoReloadInProgress == \A t \in Threads : ~(Reloading(t) /\ pc[t] # "ret")
OwnScores(f) ==
    /\ f.has = SentColSet
    /\ \A c \in SentColSet :
         /\ Len(f.cols[c]) = FrameLen(f)
         /\ \A i \in 1..FrameLen(f) :
              f.cols[c][i] = analyze_sentiment_vader(f.rows[i].comments)[c]
C3_ReloadsDoNotInterleave ==
    /\ \A t \in Threads :
         ReloadFailed(t) => loc[t].resp.error # "ValueError"
    /\ NoReloadInProgress =>
         /\ OwnScores(df_with_sentiment)
         /\ \E n \in 1..MaxSample :
              df_with_sentiment = load_data(source, n).df_with_sentiment

\* ---- get_reviews pagination
\* the positions of the corpus a request's filters keep, ascending
KeptBy(f, sentiment_filter, search_query) ==
    { p \in 1..FrameLen(f) :
        /\ search_query # <<>> => Contains(f.rows[p].comments, search_query)
        /\ sentiment_filter \in SentimentNames =>
              f.cols["sentiment"][p] = sentiment_filter }
\* the k-th smallest member of a set of positions
Kth(S, k) == CHOOSE p \in S : Cardinality({ q \in S : q < p }) = k - 1
\* the smallest k with k * b >= a
CeilDiv(a, b) == CHOOSE k \in 0..a : k * b >= a /\ (k - 1) * b < a

PaginationHolds(t) ==
    LET f == loc[t].corpus
        page == loc[t].page
        per_page == loc[t].per_page
        r == loc[t].resp
        kept == KeptBy(f, loc[t].sentiment, loc[t].search)
        total == Cardinality(kept)
        first == (page - 1) * per_page
        n == Min(per_page, Max(0, total - first))
    IN  /\ r.status = 200
        /\ r.total = total
        /\ Len(r.reviews) = n
        /\ \A i \in 1..n :
             /\ first + i \in 1..total
             /\ r.reviews[i] = ReviewItem(f, Kth(kept, first + i))
        /\ r.total_pages = CeilDiv(total, per_page)

\* C4 (original claim): for every integer page and every per_page >= 1 the
\* response holds min(per_page, max(0, total - (page-1)*per_page)) items, the
\* records at positions [(page-1)*per_page, page*per_page) of the filtered
\* corpus, and total_pages = ceil(total / per_page).
C4_PaginationAnyPage ==
    (Returned("t1", "get_reviews") /\ loc["t1"].per_page >= 1)
        => PaginationHolds("t1")

\* C4 (amended): for every page >= 1 and every per_page >= 1 the response is
\* as stated; for a page below 1 it is still a 200 answer with the same total
\* and total_pages and at most per_page items.
C4_Pagination ==
    (Returned("t1", "get_reviews") /\ loc["t1"].per_page >= 1) =>
        IF loc["t1"].page >= 1
        THEN PaginationHolds("t1")
        ELSE LET r == loc["t1"].resp
                 total == Cardinality(KeptBy(loc["t1"].corpus, loc["t1"].sentiment,
                                             loc["t1"].search))
             IN  /\ r.status = 200
                 /\ r.total = total
                 /\ r.total_pages = CeilDiv(total, loc["t1"].per_page)
                 /\ Len(r.reviews) <= loc["t1"].per_page

\* a second page that is served short: page 2, fewer items than per_page
C4_Witness ==
    /\ Returned("t1", "get_reviews")
    /\ loc["t1"].page = 2 /\ loc["t1"].per_page = 2
    /\ loc["t1"].resp.status = 200
    /\ Len(loc["t1"].resp.reviews) = 1
    /\ loc["t1"].resp.total_pages = 2

\* ---- incremental reload
IncrementalTarget(t) ==
    Min(loc[t].current_size + loc[t].batch_size, loc[t].sample_size)
IncrementalDone(t) ==
    /\ ReloadSucceeded(t)
    /\ loc[t].batch_size >= 1
    /\ Len(source) >= IncrementalTarget(t)

\* C5 (original claim): a successful incremental reload from C records with
\* batch_size B toward T loads min(C+B, T) records and reports that count.
C5_IncrementalLoadsTarget ==
    IncrementalDone("t1") =>
        /\ loc["t1"].resp.loaded = IncrementalTarget("t1")
        /\ FrameLen(df_with_sentiment) = IncrementalTarget("t1")

\* C5 (amended): it reads min(C+B, T) rows of the file and annotates from
\* scratch those that survive deduplication: the corpus holds one record per
\* distinct comments text among them, each with the scores of its own
\* comments, and the reported count is the number of those records.
C5_IncrementalReadsTarget ==
    IncrementalDone("t1") =>
        LET m == IncrementalTarget("t1")
        IN  /\ loc["t1"].new_size = m
            /\ loc["t1"].initial_count = m
            /\ CommentsOf(df_with_sentiment.rows) = CommentsOf(RawRows(m))
            /\ FrameLen(df_with_sentiment) = Cardinality(CommentsOf(RawRows(m)))
            /\ loc["t1"].resp.loaded = FrameLen(df_with_sentiment)
            /\ OwnScores(df_with_sentiment)

\* an incremental reload that grew the corpus although duplicates were dropped
C5_Witness ==
    /\ IncrementalDone("t1")
    /\ loc["t1"].duplicates_removed > 0
    /\ loc["t1"].resp.loaded > loc["t1"].current_size
    /\ loc["t1"].resp.loaded < IncrementalTarget("t1")

\* ---- statistics
MaxOf(vals) == CHOOSE v \in { vals[i] : i \in 1..Len(vals) } :
                  \A i \in 1..Len(vals) : vals[i] <= v
MinOf(vals) == CHOOSE v \in { vals[i] : i \in 1..Len(vals) } :
                  \A i \in 1..Len(vals) : vals[i] >= v
FirstPosOf(vals, v) == CHOOSE i \in 1..Len(vals) :
                  vals[i] = v /\ \A j \in 1..(i - 1) : vals[j] # v

\* C6 (original claim): statistics names the first record of maximum polarity
\* as most_positive_review and the first of minimum polarity as
\* most_negative_review, with those polarities.  Stated for corpora in which
\* every record has comments text.
C6_ExtremeReviews ==
    (Returned("t1", "get_statistics") /\ NaN \notin CommentsOf(df_with_sentiment.rows)) =>
        LET f == df_with_sentiment
            pol == f.cols["polarity"]
            hi == FirstPosOf(pol, MaxOf(pol))
            lo == FirstPosOf(pol, MinOf(pol))
            r == loc["t1"].resp
        IN  /\ r.status = 200
            /\ r.stats.most_positive_review.id = f.rows[hi].id
            /\ r.stats.most_positive_review.polarity = MaxOf(pol)
            /\ r.stats.most_negative_review.id = f.rows[lo].id
            /\ r.stats.most_negative_review.polarity = MinOf(pol)

\* ---- deduplication
\* kept holds one record per distinct comments text of raw, the first in file
\* order with that text, in file order
FirstOccurrences(kept, raw) ==
    /\ CommentsOf(kept) = CommentsOf(raw)
    /\ \A i, j \in 1..Len(kept) : i < j =>
          /\ kept[i].comments # kept[j].comments
          /\ kept[i].id < kept[j].id
    /\ \A i \in 1..Len(kept) :
          kept[i].id = FirstIdWith(raw, kept[i].comments)

\* C7: when load_data has deduplicated (lines 28-39), df holds exactly one
\* record per distinct comments text of the rows read, the first row in file
\* order with that text, the survivors are in file order, and the count of
\* removed records is rows read minus rows kept; the corpus a successful
\* reload publishes holds the same records.
C7_Deduplication ==
    LET raw == RawRows(loc["t1"].new_size)
    IN  /\ (pc["t1"] = "l44") =>
              /\ loc["t1"].initial_count = Len(raw)
              /\ FirstOccurrences(df.rows, raw)
              /\ loc["t1"].duplicates_removed = Len(raw) - FrameLen(df)
        /\ ReloadSucceeded("t1") =>
              /\ FirstOccurrences(df_with_sentiment.rows, raw)
              /\ loc["t1"].duplicates_removed = Len(raw) - FrameLen(df_with_sentiment)

\* a load that dropped a duplicate from the middle of the rows read
C7_Witness ==
    /\ pc["t1"] = "l44"
    /\ loc["t1"].duplicates_removed = 1
    /\ FrameLen(df) = 2
    /\ df.index = <<0, 2>>

\* ---- the sentiment label
LabelOf(polarity) ==
    IF polarity >= 50 THEN "positive"
    ELSE IF polarity <= 0 - 50 THEN "negative"
    ELSE "neutral"

\* C8 (original claim): in every SentimentScores the annotation function
\* returns, polarity equals compound and the label is the one the thresholds
\* 0.05 / -0.05 give for that returned polarity.
C8_LabelFollowsPolarity ==
    (Returned("t1", "analyze") /\ loc["t1"].resp.status = 200) =>
        LET r == loc["t1"].resp.scores
        IN  /\ r.polarity = r.compound
            /\ r.sentiment = LabelOf(r.polarity)

\* ---- semantic search
SearchRanked ==
    /\ ss.pc = "ret" /\ ss.l.call = "search"
    /\ ss.embeddings.kind = "ndarray"
    /\ "top_indices" \in DOMAIN ss.l

\* C9 (original claim): a search over a built cache of n entries returns
\* min(top_k, n) entries in non-increasing similarity, omits no entry that is
\* strictly more similar than a returned one, and puts entries of equal
\* similarity in cache order, inside the result and at the cut.
C9_RankedStable ==
    SearchRanked =>
        LET sims == ss.l.similarities
            idx == ss.l.top_indices
            res == ss.resp.results
            n == Len(ss.embeddings.v)
            omitted == (1..n) \ { idx[i] : i \in 1..Len(idx) }
        IN  /\ ss.resp.raise = ""
            /\ Len(res) = Min(ss.l.top_k, n)
            /\ \A i \in 1..Len(res) :
                 /\ res[i].review = ss.reviews_data.v[idx[i]]
                 /\ res[i].similarity_score = sims[idx[i]]
            /\ \A i, j \in 1..Len(res) : i < j => sims[idx[i]] >= sims[idx[j]]
            /\ \A o \in omitted, i \in 1..Len(res) : sims[o] <= sims[idx[i]]
            /\ \A i, j \in 1..Len(res) :
                 (i < j /\ sims[idx[i]] = sims[idx[j]]) => idx[i] < idx[j]
            /\ \A o \in omitted, i \in 1..Len(res) :
                 sims[o] = sims[idx[i]] => idx[i] < o

\* ---- the cache file
AlignedPair(bytes) ==
    LET c == Unpickle(bytes)
    IN  /\ c.raise = ""
        /\ Len(c.embeddings) = Len(c.reviews_data)
        /\ \A i \in 1..Len(c.embeddings) : c.embeddings[i] = Embed(c.reviews_data[i].comments)

\* C10 (original claim): at every step of a cache build, a crash included, the
\* cache file is absent or holds the complete aligned pair of a finished build,
\* and no create_embeddings of a later process fails to load it.
C10_CacheFileAtomic ==
    /\ ss.file.kind = "absent" \/ AlignedPair(ss.file.bytes)
    /\ (ss.pc = "ret" /\ ss.l.call = "create_embeddings") => ss.resp.raise = ""

\* ---- the cache build
BuildReturned ==
    /\ ss.pc = "ret" /\ ss.l.call = "create_embeddings"
    /\ "calls" \in DOMAIN ss.l

\* C11: a create_embeddings that found no cache file returns with vectors and
\* records of equal length, the records being the snapshots of exactly the
\* corpus records whose embedding succeeded, in corpus order, the i-th vector
\* the embedding of the i-th record's comments, one generate_embedding call per
\* corpus record, and the file holding the same pair.
C11_BuildAligned ==
    BuildReturned =>
        LET calls == ss.l.calls
            n == Len(df.rows)
            succeeded == SelectSeq([i \in 1..n |-> i], LAMBDA i : calls[i].ok)
            vectors == ss.embeddings.v
            records == ss.reviews_data.v
            cache == Unpickle(ss.file.bytes)
        IN  /\ ss.resp.raise = ""
            /\ Len(calls) = n
            /\ \A i \in 1..n : calls[i].text = Str(df.rows[i].comments)
            /\ ss.embeddings.kind = "ndarray" /\ ss.reviews_data.kind = "list"
            /\ Len(vectors) = Len(records)
            /\ Len(records) = Len(succeeded)
            /\ \A k \in 1..Len(records) :
                 /\ records[k] = Snapshot(df.rows[succeeded[k]])
                 /\ vectors[k] = Embed(records[k].comments)
            /\ ss.file.kind = "file"
            /\ cache.raise = ""
            /\ cache.embeddings = vectors
            /\ cache.reviews_data = records

\* a build in which the first record's embedding failed and the second's
\* succeeded
C11_Witness ==
    /\ BuildReturned
    /\ Len(ss.l.calls) = 2
    /\ ~ss.l.calls[1].ok /\ ss.l.calls[2].ok
    /\ Len(ss.reviews_data.v) = 1

\* ---- search without a usable cache or query embedding
SearchReturned == ss.pc = "ret" /\ ss.l.call = "search"
CacheUnbuilt == ss.embeddings.kind = "None" \/ ss.reviews_data.kind = "None"
CacheEmpty == ss.embeddings.kind = "ndarray" /\ Len(ss.embeddings.v) = 0

\* C12 (original claim): a search on an unbuilt cache, on a cache built with
\* zero entries, or with a failed query embedding returns the empty sequence
\* and raises nothing.
C12_SearchDegrades ==
    (SearchReturned /\ (CacheUnbuilt \/ CacheEmpty \/ ss.l.query_embedding.kind = "None")) =>
        /\ ss.resp.raise = ""
        /\ ss.resp.results = <<>>

\* ---- repeated incremental reloads
\* C13 (original claim): under repeated incremental reloads with a fixed
\* batch_size >= 1 and target T against a source of at least T records, no
\* reload reads fewer rows than the load before it, and from some reload on
\* every load reads T rows.
C13_IncrementalProgress ==
    /\ [](ReloadSucceeded("t1") => loc["t1"].initial_count >= before.read)
    /\ <>[](before.read = before.sample_size)

====
